---- MODULE Spec2Model ----
(***************************************************************************)
(* Model of src/src/image.rs: `Image`, the wrapper around a mapped         *)
(* `VAImage`.  Every call of `Image::new` is one construction attempt;     *)
(* attempts are numbered 1..MaxImages.  Each handler of the source         *)
(* (`Image::new`, `Image::image`, `Image::is_derived`, `as_ref`, `drop`)   *)
(* is one action.  The native library is the environment: the status of    *)
(* every native call and the address written by vaMapBuffer are chosen     *)
(* nondeterministically.  `log[s]` records, in program order, the native   *)
(* calls and the Rc<Display> operations executed for attempt s.            *)
(***************************************************************************)
EXTENDS Integers, Sequences, FiniteSets, TLC

\* ------------------------------------------------------------------ bounds
\* Number of construction attempts (calls of Image::new) in a run.
MaxImages == 2
\* Number of distinct VAImage descriptors a caller can pass.
MaxImageId == 2

\* `std::ptr::null_mut()`, the initial value of `addr`
NULL == 0

Slots == 1..MaxImages

\* Display handles, native statuses and mapped addresses are opaque to
\* image.rs: it passes them on, and only `va_check` tells the success status
\* (0, VA_STATUS_SUCCESS) from the others.
Displays == {"dpyA", "dpyB"}
Statuses == {0, 1}
Addrs == {1}

\* The `bindings::VAImage` descriptors a caller can pass: every image owns
\* its own buffer, whose id differs from every image id, and has its own
\* `data_size` (0 included).
VAImages ==
  { [image_id |-> i, buf |-> MaxImageId + i, data_size |-> i - 1] :
      i \in 1..MaxImageId }

\* The display a descriptor was created on.  Image::new is called with the
\* picture the descriptor was obtained from, hence with that display.
CreatedOn(vaimage) == IF vaimage.image_id % 2 = 1 THEN "dpyA" ELSE "dpyB"

NoCall == [called |-> FALSE]
NoRet == [tag |-> "None"]
NoImage == [live |-> FALSE]
NoOut == [by |-> 0]

VARIABLES
  args,   \* args[s]: the arguments attempt s passed to Image::new
  ret,    \* ret[s]: the Result attempt s got back from Image::new
  img,    \* img[s]: the Image value owned by the caller of attempt s
  log,    \* log[s]: native calls and Rc operations executed for attempt s
  rc,     \* rc[d]: strong count of the Rc<Display> of display d
  out     \* what the latest call returned, when that call was an accessor

vars == <<args, ret, img, log, rc, out>>

\* ------------------------------------------------------- log entries
Call(op, d, id, st, addr) ==
  [op |-> op, dpy |-> d, id |-> id, status |-> st, addr |-> addr]

vaMapBuffer(d, buf, st, addr) == Call("vaMapBuffer", d, buf, st, addr)
vaUnmapBuffer(d, buf, st) == Call("vaUnmapBuffer", d, buf, st, NULL)
vaDestroyImage(d, id, st) == Call("vaDestroyImage", d, id, st, NULL)
RcClone(d) == Call("Rc::clone", d, 0, 0, NULL)
RcDrop(d) == Call("Rc::drop", d, 0, 0, NULL)

\* `va_check`: VA_STATUS_SUCCESS (0) is Ok, any other status is an error
\* carrying that status.
va_check(st) ==
  IF st = 0 THEN [tag |-> "Ok"] ELSE [tag |-> "Err", code |-> st]

\* What vaMapBuffer can hand back: success with a mapped address, or a
\* failing status with `addr` left as it was.
MapOutcomes ==
  { [status |-> 0, addr |-> a] : a \in Addrs } \cup
  { [status |-> st, addr |-> NULL] : st \in Statuses \ {0} }

\* -------------------------------------------------------- Image::new
\* Variant: the slice length taken from the wrong field of the descriptor.
FromRawParts_BufAsLen(addr, vaimage) == [addr |-> addr, len |-> vaimage.buf]

\* `std::slice::from_raw_parts_mut(addr, image.data_size)`
FromRawParts(addr, vaimage) == [addr |-> addr, len |-> vaimage.data_size]

\* The struct built on the Ok arm.
NewImage(d, vaimage, derived, addr) ==
  [live |-> TRUE, display |-> d, image |-> vaimage,
   data |-> FromRawParts(addr, vaimage), derived |-> derived]

\* Variant: the Ok arm unmaps the buffer again before it returns the Image.
NewOkOps_Unmaps(d, vaimage) == << RcClone(d), vaUnmapBuffer(d, vaimage.buf, 0) >>

\* Operations of the Ok arm after the map call.
NewOkOps(d, vaimage) == << RcClone(d) >>

\* Variants of the Err arm: one that returns the error without cleaning up,
\* one that also unmaps the buffer that was never mapped.
NewErrOps_NoDestroy(d, vaimage, dst) == << >>
NewErrOps_UnmapToo(d, vaimage, dst) ==
  << vaUnmapBuffer(d, vaimage.buf, dst), vaDestroyImage(d, vaimage.image_id, dst) >>

\* Operations of the Err arm after the map call.
NewErrOps(d, vaimage, dst) == << vaDestroyImage(d, vaimage.image_id, dst) >>

\* Variant: the map call issued a second time.
NewMapOps_Retry(d, vaimage, m) ==
  << vaMapBuffer(d, vaimage.buf, m.status, m.addr),
     vaMapBuffer(d, vaimage.buf, m.status, m.addr) >>

\* The native map call at the head of Image::new.
NewMapOps(d, vaimage, m) == << vaMapBuffer(d, vaimage.buf, m.status, m.addr) >>

\* Variant: Image::new refuses a descriptor that a live Image already maps.
New_RejectsMapped(s, d, vaimage, derived, m, dst) ==
  /\ ~args[s].called
  /\ rc[d] > 0
  /\ \A t \in Slots : ~(img[t].live /\ img[t].image = vaimage)
  /\ args' = [args EXCEPT ![s] =
                [called |-> TRUE, dpy |-> d, image |-> vaimage, derived |-> derived]]
  /\ IF va_check(m.status).tag = "Ok"
       THEN /\ log' = [log EXCEPT ![s] = NewMapOps(d, vaimage, m) \o NewOkOps(d, vaimage)]
            /\ img' = [img EXCEPT ![s] = NewImage(d, vaimage, derived, m.addr)]
            /\ rc' = [rc EXCEPT ![d] = @ + 1]
            /\ ret' = [ret EXCEPT ![s] = [tag |-> "Ok"]]
       ELSE /\ log' = [log EXCEPT ![s] = NewMapOps(d, vaimage, m) \o NewErrOps(d, vaimage, dst)]
            /\ ret' = [ret EXCEPT ![s] = va_check(m.status)]
            /\ UNCHANGED <<img, rc>>
  /\ out' = NoOut

New(s, d, vaimage, derived, m, dst) ==
  /\ ~args[s].called
  /\ rc[d] > 0
  /\ args' = [args EXCEPT ![s] =
                [called |-> TRUE, dpy |-> d, image |-> vaimage, derived |-> derived]]
  /\ IF va_check(m.status).tag = "Ok"
       THEN /\ log' = [log EXCEPT ![s] = NewMapOps(d, vaimage, m) \o NewOkOps(d, vaimage)]
            /\ img' = [img EXCEPT ![s] = NewImage(d, vaimage, derived, m.addr)]
            /\ rc' = [rc EXCEPT ![d] = @ + 1]
            /\ ret' = [ret EXCEPT ![s] = [tag |-> "Ok"]]
       ELSE /\ log' = [log EXCEPT ![s] = NewMapOps(d, vaimage, m) \o NewErrOps(d, vaimage, dst)]
            /\ ret' = [ret EXCEPT ![s] = va_check(m.status)]
            /\ UNCHANGED <<img, rc>>
  /\ out' = NoOut

\* ---------------------------------------------------------- accessors
GetImage(im) == im.image
\* Variant: the flag returned negated.
IsDerived_Negated(im) == ~im.derived
IsDerived(im) == im.derived
AsRef(im) == im.data

\* Variant: an accessor that writes to the instance it reads.
AfterAccessor_ClearsDerived(im) == [im EXCEPT !.derived = FALSE]

\* The fields of the instance after an accessor ran on it (`&self`).
AfterAccessor(im) == im

Accessor(s, fn, val) ==
  /\ img[s].live
  /\ out' = [by |-> s, fn |-> fn, val |-> val]
  /\ img' = [img EXCEPT ![s] = AfterAccessor(img[s])]
  /\ UNCHANGED <<args, ret, log, rc>>

image(s) == Accessor(s, "image", GetImage(img[s]))
is_derived(s) == Accessor(s, "is_derived", IsDerived(img[s]))
as_ref(s) == Accessor(s, "as_ref", AsRef(img[s]))

\* --------------------------------------------------------------- drop
\* Variants of the drop body: the two native calls swapped, and the image
\* destroyed twice.
DropOps_DestroyFirst(im, ust, dst) ==
  << vaDestroyImage(im.display, im.image.image_id, dst),
     vaUnmapBuffer(im.display, im.image.buf, ust),
     RcDrop(im.display) >>
DropOps_DestroyTwice(im, ust, dst) ==
  << vaUnmapBuffer(im.display, im.image.buf, ust),
     vaDestroyImage(im.display, im.image.image_id, dst),
     vaDestroyImage(im.display, im.image.image_id, dst),
     RcDrop(im.display) >>
\* Variants that leave out one of the two native calls, and one that
\* returns from the drop body as soon as vaUnmapBuffer reports a failure.
DropOps_NoDestroy(im, ust, dst) ==
  << vaUnmapBuffer(im.display, im.image.buf, ust), RcDrop(im.display) >>
DropOps_NoUnmap(im, ust, dst) ==
  << vaDestroyImage(im.display, im.image.image_id, dst), RcDrop(im.display) >>
DropOps_StopOnError(im, ust, dst) ==
  IF ust # 0
    THEN << vaUnmapBuffer(im.display, im.image.buf, ust), RcDrop(im.display) >>
    ELSE << vaUnmapBuffer(im.display, im.image.buf, ust),
            vaDestroyImage(im.display, im.image.image_id, dst),
            RcDrop(im.display) >>

\* Variants: the two ids passed to the wrong calls, and the display share
\* released before the native calls are made.
DropOps_SwappedIds(im, ust, dst) ==
  << vaUnmapBuffer(im.display, im.image.image_id, ust),
     vaDestroyImage(im.display, im.image.buf, dst),
     RcDrop(im.display) >>
DropOps_ReleaseFirst(im, ust, dst) ==
  << RcDrop(im.display),
     vaUnmapBuffer(im.display, im.image.buf, ust),
     vaDestroyImage(im.display, im.image.image_id, dst) >>

\* Body of `Drop::drop`, followed by the drop of the fields.
DropOps(im, ust, dst) ==
  << vaUnmapBuffer(im.display, im.image.buf, ust),
     vaDestroyImage(im.display, im.image.image_id, dst),
     RcDrop(im.display) >>

RcDropsIn(ops, d) ==
  Cardinality({ i \in 1..Len(ops) : ops[i].op = "Rc::drop" /\ ops[i].dpy = d })

Drop(s, ust, dst) ==
  /\ img[s].live
  /\ LET ops == DropOps(img[s], ust, dst) IN
       /\ log' = [log EXCEPT ![s] = @ \o ops]
       /\ rc' = [d \in Displays |-> rc[d] - RcDropsIn(ops, d)]
  /\ img' = [img EXCEPT ![s] = NoImage]
  /\ out' = NoOut
  /\ UNCHANGED <<args, ret>>

\* ------------------------------------------------------ specification
Init ==
  /\ args = [s \in Slots |-> NoCall]
  /\ ret = [s \in Slots |-> NoRet]
  /\ img = [s \in Slots |-> NoImage]
  /\ log = [s \in Slots |-> << >>]
  /\ rc = [d \in Displays |-> 1]
  /\ out = NoOut

NewStep ==
  \E s \in Slots, d \in Displays, vaimage \in VAImages, derived \in BOOLEAN,
     m \in MapOutcomes, dst \in Statuses :
       /\ d = CreatedOn(vaimage)
       /\ New(s, d, vaimage, derived, m, dst)

ImageStep == \E s \in Slots : image(s)
IsDerivedStep == \E s \in Slots : is_derived(s)
AsRefStep == \E s \in Slots : as_ref(s)
DropStep == \E s \in Slots, ust \in Statuses, dst \in Statuses : Drop(s, ust, dst)

Next ==
  \/ NewStep
  \/ ImageStep
  \/ IsDerivedStep
  \/ AsRefStep
  \/ DropStep

Spec == Init /\ [][Next]_vars

\* An Image is owned by value and cannot be cloned, so its destructor runs
\* when its owner's scope ends: a live instance is eventually dropped.
DropOf(s) == \E ust \in Statuses, dst \in Statuses : Drop(s, ust, dst)
FairSpec == Spec /\ \A s \in Slots : WF_vars(DropOf(s))

\* ------------------------------------------------- reading the log
\* Positions in log[s] of the calls of one operation.
Ops(s, op) == { i \in 1..Len(log[s]) : log[s][i].op = op }
Count(s, op) == Cardinality(Ops(s, op))

MapOk(s) ==
  \E i \in 1..Len(log[s]) : log[s][i].op = "vaMapBuffer" /\ log[s][i].status = 0
MapFailed(s) ==
  \E i \in 1..Len(log[s]) : log[s][i].op = "vaMapBuffer" /\ log[s][i].status # 0
Dropped(s) == ret[s].tag = "Ok" /\ ~img[s].live

\* The address the successful map call of attempt s wrote to `addr`.
MapAddr(s) == log[s][CHOOSE i \in Ops(s, "vaMapBuffer") : TRUE].addr

\* The lifecycle state of attempt s, read off the native calls issued for it.
Issued(s, op) == \E i \in 1..Len(log[s]) : log[s][i].op = op
LiveMapping(s) == MapOk(s) /\ ~Issued(s, "vaUnmapBuffer")
Destroyed(s) == Issued(s, "vaDestroyImage")
LifeState(s) ==
  CASE log[s] = << >> -> "Unmapped"
    [] log[s] # << >> /\ LiveMapping(s) /\ ~Destroyed(s) -> "Mapped"
    [] log[s] # << >> /\ ~LiveMapping(s) /\ Destroyed(s) -> "Destroyed"
    [] OTHER -> "Other"

\* ------------------------------------------------------------ claims

\* C1: when the vaMapBuffer call of Image::new fails, Image::new has returned
\* an error, and by then vaDestroyImage has been issued exactly once, for the
\* image_id of the descriptor that was passed.
C1_FailedMapDestroysOnce ==
  \A s \in Slots :
    MapFailed(s) =>
      /\ ret[s].tag = "Err"
      /\ Count(s, "vaDestroyImage") = 1
      /\ \A i \in Ops(s, "vaDestroyImage") :
           /\ log[s][i].id = args[s].image.image_id
           /\ \E j \in Ops(s, "vaMapBuffer") : j < i

C1_Witness ==
  \E s \in Slots :
    MapFailed(s) /\ ret[s].tag = "Err" /\ Count(s, "vaDestroyImage") = 1

\* C2: once a successfully constructed Image has been dropped, its log holds
\* exactly one vaUnmapBuffer (for image.buf) and exactly one vaDestroyImage
\* (for image.image_id), the unmap before the destroy.
C2_DropUnmapsThenDestroys ==
  \A s \in Slots :
    Dropped(s) =>
      /\ Count(s, "vaUnmapBuffer") = 1
      /\ Count(s, "vaDestroyImage") = 1
      /\ \A i \in Ops(s, "vaUnmapBuffer"), j \in Ops(s, "vaDestroyImage") :
           /\ i < j
           /\ log[s][i].id = args[s].image.buf
           /\ log[s][j].id = args[s].image.image_id

C2_Witness ==
  \E s \in Slots :
    Dropped(s) /\ Count(s, "vaUnmapBuffer") = 1 /\ Count(s, "vaDestroyImage") = 1

\* C3: an attempt whose map call failed has no instance in any later state,
\* so its destructor cannot run: its log holds exactly one vaDestroyImage and
\* no vaUnmapBuffer for the rest of the run.
C3_FailedAttemptNeverDropped ==
  \A s \in Slots :
    ret[s].tag = "Err" =>
      /\ ~img[s].live
      /\ Count(s, "vaDestroyImage") = 1
      /\ Count(s, "vaUnmapBuffer") = 0

C3_Witness ==
  \E s \in Slots, t \in Slots :
    /\ ret[s].tag = "Err" /\ Count(s, "vaUnmapBuffer") = 0
    /\ Dropped(t)

\* C4: no attempt ever has more than one vaMapBuffer, more than one
\* vaUnmapBuffer or more than one vaDestroyImage call in its log.
C4_AtMostOnceEach ==
  \A s \in Slots :
    /\ Count(s, "vaMapBuffer") <= 1
    /\ Count(s, "vaUnmapBuffer") <= 1
    /\ Count(s, "vaDestroyImage") <= 1

C4_Witness ==
  \A s \in Slots :
    /\ Count(s, "vaMapBuffer") = 1
    /\ Count(s, "vaUnmapBuffer") = 1
    /\ Count(s, "vaDestroyImage") = 1

\* C5: under FairSpec every construction attempt leads to the Destroyed
\* state with no instance and no live mapping left, whether its map call
\* succeeded or failed.
C5_EventuallyDestroyed ==
  \A s \in Slots :
    args[s].called ~>
      (/\ LifeState(s) = "Destroyed"
       /\ ~img[s].live
       /\ (MapOk(s) => Count(s, "vaUnmapBuffer") = 1))

C5_Witness ==
  \E s \in Slots, t \in Slots :
    /\ MapOk(s) /\ LifeState(s) = "Destroyed" /\ ~img[s].live
    /\ MapFailed(t) /\ LifeState(t) = "Destroyed"

\* C6: the lifecycle state of an attempt changes only Unmapped -> Mapped,
\* Unmapped -> Destroyed or Mapped -> Destroyed; an instance exists exactly
\* in the Mapped state; Mapped is never re-entered and Destroyed never left.
LegalTransitions ==
  { <<"Unmapped", "Mapped">>, <<"Unmapped", "Destroyed">>, <<"Mapped", "Destroyed">> }

C6_LifecycleTransitions ==
  [][\A s \in Slots :
       LET before == LifeState(s)
           after == LifeState(s)'
       IN /\ after # before => <<before, after>> \in LegalTransitions
          /\ (after = "Mapped") <=> img'[s].live
          /\ (before = "Unmapped" /\ after = "Destroyed") => MapFailed(s)'
          /\ (before = "Unmapped" /\ after = "Mapped") => MapOk(s)']_vars

C6_Witness ==
  \E s \in Slots, t \in Slots :
    /\ s # t
    /\ MapOk(s) /\ LifeState(s) = "Destroyed"
    /\ MapFailed(t) /\ LifeState(t) = "Destroyed"
    /\ out = NoOut

\* C7: after a successful map call for a descriptor with data_size = N,
\* Image::new returned Ok and the view as_ref() gives has length N and
\* starts at the address the map call returned.
C7_ViewSpansDataSize ==
  \A s \in Slots :
    MapOk(s) =>
      /\ ret[s].tag = "Ok"
      /\ img[s].live =>
           AsRef(img[s]) = [addr |-> MapAddr(s), len |-> args[s].image.data_size]
      /\ (out.by = s /\ out.fn = "as_ref") =>
           /\ out.val.len = args[s].image.data_size
           /\ out.val.addr = MapAddr(s)

C7_Witness ==
  /\ out.by # 0
  /\ out.fn = "as_ref"
  /\ out.val.len > 0
  /\ out.val.addr # NULL

\* C8: a call of image(), is_derived() or as_ref() issues no native call,
\* leaves every instance and every count as they were, and returns the value
\* fixed at construction, hence the same value on every call.
C8_AccessorsArePure ==
  [][out' # NoOut =>
       /\ log' = log /\ rc' = rc /\ img' = img /\ args' = args /\ ret' = ret
       /\ img[out'.by].live
       /\ out'.fn = "image" => out'.val = args[out'.by].image
       /\ out'.fn = "is_derived" => out'.val = args[out'.by].derived
       /\ out'.fn = "as_ref" =>
            out'.val = [addr |-> MapAddr(out'.by),
                        len |-> args[out'.by].image.data_size]]_vars

C8_Witness ==
  /\ out.by # 0
  /\ out.fn = "image"
  /\ \A s \in Slots : img[s].live

\* C9: while an instance is live, is_derived() returns the boolean that was
\* passed as `derived` to Image::new.
C9_DerivedFlagFidelity ==
  \A s \in Slots :
    img[s].live =>
      /\ IsDerived(img[s]) = args[s].derived
      /\ (out.by = s /\ out.fn = "is_derived") => out.val = args[s].derived

C9_Witness ==
  \E s \in Slots, t \in Slots :
    /\ img[s].live /\ img[t].live
    /\ args[s].derived /\ ~args[t].derived
    /\ out.by = s /\ out.fn = "is_derived" /\ out.val = TRUE

\* C10: a failing status of vaUnmapBuffer or vaDestroyImage during drop stops
\* nothing and is reported to nobody: vaDestroyImage still follows the failed
\* unmap, the attempt is Destroyed, no instance is left and the Ok that
\* Image::new returned is all the caller ever got.
FailedIn(s, op) == \E i \in Ops(s, op) : log[s][i].status # 0

C10_DropIgnoresStatuses ==
  \A s \in Slots :
    /\ FailedIn(s, "vaUnmapBuffer") =>
         /\ \A i \in Ops(s, "vaUnmapBuffer") :
              \E j \in Ops(s, "vaDestroyImage") : i < j
         /\ LifeState(s) = "Destroyed"
         /\ ~img[s].live
         /\ ret[s] = [tag |-> "Ok"]
    /\ (MapOk(s) /\ FailedIn(s, "vaDestroyImage")) =>
         /\ LifeState(s) = "Destroyed"
         /\ ~img[s].live
         /\ ret[s] = [tag |-> "Ok"]

C10_Witness ==
  \E s \in Slots :
    /\ FailedIn(s, "vaUnmapBuffer")
    /\ FailedIn(s, "vaDestroyImage")
    /\ LifeState(s) = "Destroyed"

\* C11: every attempt issues vaMapBuffer exactly once; when its status is a
\* failure, Image::new has returned an error carrying that status and has
\* built no instance.
C11_SingleMapNoRetry ==
  \A s \in Slots :
    args[s].called =>
      /\ Count(s, "vaMapBuffer") = 1
      /\ ret[s].tag \in {"Ok", "Err"}
      /\ \A i \in Ops(s, "vaMapBuffer") :
           log[s][i].status # 0 =>
             /\ ret[s] = [tag |-> "Err", code |-> log[s][i].status]
             /\ ~img[s].live

C11_Witness ==
  \E s \in Slots :
    /\ Count(s, "vaMapBuffer") = 1
    /\ MapFailed(s)
    /\ ret[s].tag = "Err" /\ ret[s].code # 0

\* C12: whenever an instance exists, or a view returned by as_ref() is held,
\* the buffer of that instance is mapped (map succeeded, no unmap and no
\* destroy issued) and its display is alive; once unmap or destroy has been
\* issued for an attempt there is no instance to read through.
C12_ViewOnlyWhileMapped ==
  \A s \in Slots :
    /\ img[s].live =>
         /\ LiveMapping(s) /\ ~Destroyed(s)
         /\ rc[img[s].display] > 0
    /\ (out.by = s /\ out.fn = "as_ref") =>
         /\ img[s].live /\ LiveMapping(s) /\ ~Destroyed(s)
         /\ rc[img[s].display] > 0
    /\ (Issued(s, "vaUnmapBuffer") \/ Issued(s, "vaDestroyImage")) => ~img[s].live

C12_Witness ==
  \E s \in Slots, t \in Slots :
    /\ out.by = s /\ out.fn = "as_ref" /\ LiveMapping(s)
    /\ Issued(t, "vaUnmapBuffer") /\ ~img[t].live

\* C13: the vaUnmapBuffer of drop names the buffer id the vaMapBuffer of
\* Image::new named, the vaDestroyImage names the image_id of the descriptor
\* passed to Image::new, both go through the display handle of the map call,
\* and a live instance still stores the descriptor and display it was built
\* from.
C13_TeardownTargetsWhatWasMapped ==
  \A s \in Slots :
    /\ \A i \in Ops(s, "vaUnmapBuffer") :
         \E j \in Ops(s, "vaMapBuffer") :
           /\ j < i
           /\ log[s][i].id = log[s][j].id
           /\ log[s][i].dpy = log[s][j].dpy
    /\ \A i \in Ops(s, "vaDestroyImage") :
         /\ log[s][i].id = args[s].image.image_id
         /\ \E j \in Ops(s, "vaMapBuffer") : log[s][i].dpy = log[s][j].dpy
    /\ \A j \in Ops(s, "vaMapBuffer") :
         /\ log[s][j].id = args[s].image.buf
         /\ log[s][j].dpy = args[s].dpy
    /\ img[s].live =>
         /\ img[s].image = args[s].image
         /\ img[s].display = args[s].dpy

C13_Witness ==
  \E s \in Slots, t \in Slots :
    /\ Dropped(s) /\ Dropped(t)
    /\ args[s].dpy # args[t].dpy
    /\ Count(s, "vaUnmapBuffer") = 1 /\ Count(s, "vaDestroyImage") = 1
    /\ Count(t, "vaUnmapBuffer") = 1 /\ Count(t, "vaDestroyImage") = 1

\* C14: the strong count of a display is the picture's share plus one share
\* per live Image made through it; a share is cloned exactly on the Ok arm of
\* Image::new, never on the Err arm, and is dropped once, after the unmap and
\* the destroy of drop; while a mapping is live the count stays above the
\* picture's share.
LiveOn(d) == { s \in Slots : img[s].live /\ img[s].display = d }

C14_OneShareWhileLive ==
  /\ \A d \in Displays : rc[d] = 1 + Cardinality(LiveOn(d))
  /\ \A s \in Slots :
       /\ Count(s, "Rc::clone") = (IF MapOk(s) THEN 1 ELSE 0)
       /\ Count(s, "Rc::drop") = (IF Dropped(s) THEN 1 ELSE 0)
       /\ \A i \in Ops(s, "Rc::clone") : log[s][i].dpy = args[s].dpy
       /\ \A i \in Ops(s, "Rc::drop") :
            /\ log[s][i].dpy = args[s].dpy
            /\ \E j \in Ops(s, "vaUnmapBuffer") : j < i
            /\ \E j \in Ops(s, "vaDestroyImage") : j < i
       /\ LiveMapping(s) => rc[args[s].dpy] >= 2

C14_Witness ==
  \E s \in Slots, t \in Slots :
    /\ Dropped(s) /\ Count(s, "Rc::drop") = 1
    /\ img[t].live /\ Count(t, "Rc::clone") = 1
    /\ args[s].dpy = img[t].display
    /\ rc[img[t].display] = 2

\* C15: Image::new makes no check against double mapping.  While an Image
\* is live, a further Image::new with the same descriptor is possible and can
\* succeed; two attempts that mapped the same descriptor and were dropped
\* have each unmapped that buffer id and destroyed that image_id, so the
\* native image has received at least two destroy calls.
NativeCalls(op, d, id) ==
  UNION { { <<s, i>> : i \in { k \in Ops(s, op) :
                                 log[s][k].dpy = d /\ log[s][k].id = id } } :
          s \in Slots }

C15_DoubleMappingNotPrevented ==
  \A s \in Slots, t \in Slots :
    s # t =>
      /\ (img[t].live /\ ~args[s].called) =>
           \A a \in Addrs :
             ENABLED New(s, img[t].display, img[t].image, FALSE,
                         [status |-> 0, addr |-> a], 0)
      /\ (Dropped(s) /\ Dropped(t) /\ args[s].image = args[t].image) =>
           /\ \A i \in Ops(s, "vaUnmapBuffer"), j \in Ops(t, "vaUnmapBuffer") :
                log[s][i].id = log[t][j].id
           /\ \A i \in Ops(s, "vaDestroyImage"), j \in Ops(t, "vaDestroyImage") :
                log[s][i].id = log[t][j].id
           /\ Cardinality(NativeCalls("vaDestroyImage", args[s].dpy,
                                       args[s].image.image_id)) >= 2
           /\ Cardinality(NativeCalls("vaUnmapBuffer", args[s].dpy,
                                       args[s].image.buf)) >= 2

C15_Witness ==
  \E s \in Slots, t \in Slots :
    /\ s # t
    /\ img[s].live /\ img[t].live
    /\ img[s].image = img[t].image
    /\ MapOk(s) /\ MapOk(t)

====
